---- MODULE Spec2Model ----
(***************************************************************************)
(* A model of dudist (src/src/main.rs): the five-number summary of a list  *)
(* of file sizes (Distribution::from_vec), the box-plot renderer           *)
(* (plot_box_diagram) and the pipeline of main that composes them.         *)
(*                                                                         *)
(* Number representation.                                                  *)
(*  - A u64 or usize is a natural number below 2^64, written in base 2^15  *)
(*    with the least significant limb first and no leading zero limb:      *)
(*    0 is <<>>, 25 is <<25>>, 2^15 is <<0, 1>>.  Big(n) writes a small n. *)
(*  - An f64 is a record [kind, m, e]: kind "num" is the number m * 2^e    *)
(*    with m a natural below 2^53 that is odd (or zero, with e = 0), so    *)
(*    equal floats are equal records; kinds "nan" and "inf" are NaN and    *)
(*    +infinity.  No float of the program is negative, subnormal or        *)
(*    beyond the largest finite f64.  Conversion, division and             *)
(*    multiplication round to nearest, ties to even, as IEEE 754 does.     *)
(*  - Arithmetic overflow depends on the build: with overflow checks       *)
(*    (debug) the program panics, without them (release) it wraps.  The    *)
(*    variable overflow_checks is chosen in the initial state.             *)
(***************************************************************************)
EXTENDS Integers, Sequences, FiniteSets, TLC

VARIABLES
    pc,               \* the statement the program is at
    entry,            \* the function the run started in ("main" for the tool)
    overflow_checks,  \* TRUE: debug build (panic), FALSE: release build (wrap)
    args,             \* main: std::env::args()
    entries,          \* main: what the directory walk yields
    term_width,       \* main: get_terminal_width(), <<>> (None) or <<w>> (Some(w))
    input,            \* from_vec: the argument as passed
    sizes,            \* main's sizes; inside from_vec the local `sizes`
    dist,             \* the Distribution, <<>> until from_vec has returned
    max_value,        \* plot_box_diagram: argument
    width,            \* plot_box_diagram: argument
    cli_width,        \* plot_box_diagram: local
    pos,              \* plot_box_diagram: locals min, lower_quartile, median, upper_quartile, max
    bar,              \* the glyphs printed between the two labels, as runs <<glyph, count>>
    stdout,           \* the lines printed, in order
    calls,            \* the functions main has called, with their argument sizes
    panic             \* "" or the panic message the run died with

vars == <<pc, entry, overflow_checks, args, entries, term_width, input, sizes,
          dist, max_value, width, cli_width, pos, bar, stdout, calls, panic>>

----------------------------------------------------------------------------
(* Bounds of the model. *)

\* Longest vector handed to from_vec on its own.
MaxLen == 5
\* Most entries the directory walk yields.
MaxEntries == 3

(* Program constants. *)

\* Bits of u64 and of usize.
U64Bits == 64
\* Bits of the significand of an f64.
F64Bits == 53
\* The filter of process_dir keeps sizes > 4096.
SizeThreshold == 4096
\* Columns reserved for the two labels.
ReservedMargin == 40
\* unwrap_or(80): the width when stdout is no terminal.
DefaultWidth == 80

----------------------------------------------------------------------------
(* Natural numbers of any size. *)

RECURSIVE Pow2(_)
Pow2(n) == IF n = 0 THEN 1 ELSE 2 * Pow2(n - 1)

\* Bits of a limb, and the base.
LimbBits == 15
LimbBase == Pow2(LimbBits)

\* The small n >= 0 as a natural.
RECURSIVE Big(_)
Big(n) == IF n = 0 THEN <<>> ELSE <<n % LimbBase>> \o Big(n \div LimbBase)

\* x without leading zero limbs.
RECURSIVE Norm(_)
Norm(x) ==
    IF x = <<>> THEN <<>>
    ELSE IF x[Len(x)] = 0 THEN Norm(SubSeq(x, 1, Len(x) - 1))
    ELSE x

\* -1, 0 or 1 as x is below, equal to or above y.
RECURSIVE Cmp(_, _)
Cmp(x, y) ==
    IF Len(x) # Len(y) THEN (IF Len(x) < Len(y) THEN -1 ELSE 1)
    ELSE IF x = <<>> THEN 0
    ELSE IF x[Len(x)] # y[Len(y)] THEN (IF x[Len(x)] < y[Len(y)] THEN -1 ELSE 1)
    ELSE Cmp(Norm(SubSeq(x, 1, Len(x) - 1)), Norm(SubSeq(y, 1, Len(y) - 1)))

Lt(x, y) == Cmp(x, y) < 0
Le(x, y) == Cmp(x, y) <= 0

\* x + y + c, c a carry of 0 or 1.
RECURSIVE AddCarry(_, _, _)
AddCarry(x, y, c) ==
    IF x = <<>> /\ y = <<>> THEN (IF c = 0 THEN <<>> ELSE <<c>>)
    ELSE LET s == (IF x = <<>> THEN 0 ELSE Head(x))
                       + (IF y = <<>> THEN 0 ELSE Head(y)) + c
         IN  <<s % LimbBase>>
                 \o AddCarry(IF x = <<>> THEN <<>> ELSE Tail(x),
                             IF y = <<>> THEN <<>> ELSE Tail(y),
                             s \div LimbBase)

Add(x, y) == AddCarry(x, y, 0)

\* x - y - b for x >= y + b, b a borrow of 0 or 1; leading zeros are kept.
RECURSIVE SubBorrow(_, _, _)
SubBorrow(x, y, b) ==
    IF x = <<>> THEN <<>>
    ELSE LET d == Head(x) - (IF y = <<>> THEN 0 ELSE Head(y)) - b
         IN  <<d % LimbBase>>
                 \o SubBorrow(Tail(x), IF y = <<>> THEN <<>> ELSE Tail(y),
                              IF d < 0 THEN 1 ELSE 0)

\* x - y for x >= y.
Sub(x, y) == Norm(SubBorrow(x, y, 0))

\* x * c + k for a small c (c <= 2^15) and a carry k; leading zeros are kept.
RECURSIVE MulSmallCarry(_, _, _)
MulSmallCarry(x, c, k) ==
    IF x = <<>> THEN Big(k)
    ELSE LET p == Head(x) * c + k
         IN  <<p % LimbBase>> \o MulSmallCarry(Tail(x), c, p \div LimbBase)

MulSmall(x, c) == Norm(MulSmallCarry(x, c, 0))

\* One limb of the division by a small d: hi is <<quotient, remainder>> of
\* the limbs above, limb the next one down.
DivModSmallStep(hi, limb, d) ==
    <<Norm(<<(hi[2] * LimbBase + limb) \div d>> \o hi[1]),
      (hi[2] * LimbBase + limb) % d>>

\* <<x div d, x mod d>> for a small d (0 < d <= 2^15), the remainder a number.
RECURSIVE DivModSmall(_, _)
DivModSmall(x, d) ==
    IF x = <<>> THEN <<<<>>, 0>>
    ELSE DivModSmallStep(DivModSmall(Tail(x), d), Head(x), d)

\* The largest multiple q = base + d * step, d in 0 .. 31, with q * y <= r,
\* given base * y <= r.
TopDigit(r, y, base, step) ==
    base + step * (Cardinality({d \in 0 .. 31 : Le(MulSmall(y, base + d * step), r)}) - 1)

\* The largest q with q * y <= r, for r < 2^15 * y: one limb of a quotient,
\* five bits at a time.
QuotientDigit(r, y) ==
    CHOOSE q \in {TopDigit(r, y, b, 1) :
                    b \in {TopDigit(r, y, a, 32) :
                             a \in {TopDigit(r, y, 0, 1024)}}} : TRUE

\* One limb of the long division: h is <<x div y, x mod y>> for the limbs of
\* x above `limb`.
DivModLongStep(h, limb, y) ==
    CHOOSE qr \in {<<Norm(<<d[1]>> \o h[1]), Sub(d[2], MulSmall(y, d[1]))>> :
                     d \in {<<QuotientDigit(r, y), r>> :
                              r \in {Norm(<<limb>> \o h[2])}}} : TRUE

\* <<x div y, x mod y>> for y > 0, by long division in base 2^15.
RECURSIVE DivModLong(_, _)
DivModLong(x, y) ==
    IF x = <<>> THEN <<<<>>, <<>>>>
    ELSE CHOOSE qr \in {DivModLongStep(h, Head(x), y) :
                          h \in {DivModLong(Tail(x), y)}} : TRUE

\* <<q, r>> with the remainder as a natural.
SmallRemainder(qr) == <<qr[1], Big(qr[2])>>

\* <<x div y, x mod y>> for y > 0.
DivMod(x, y) ==
    IF Len(y) = 1
    THEN SmallRemainder(DivModSmall(x, y[1]))
    ELSE DivModLong(x, y)

\* k zero limbs.
RECURSIVE Zeros(_)
Zeros(k) == IF k = 0 THEN <<>> ELSE <<0>> \o Zeros(k - 1)

\* x * 2^k.
Shl(x, k) ==
    IF x = <<>> THEN <<>>
    ELSE Zeros(k \div LimbBits) \o MulSmall(x, Pow2(k % LimbBits))

\* x * y.
RECURSIVE Mul(_, _)
Mul(x, y) ==
    IF x = <<>> \/ y = <<>> THEN <<>>
    ELSE Add(MulSmall(x, Head(y)), Shl(Mul(x, Tail(y)), LimbBits))

\* x div 2^k.
Shr(x, k) ==
    IF Len(x) <= k \div LimbBits THEN <<>>
    ELSE DivModSmall(SubSeq(x, k \div LimbBits + 1, Len(x)), Pow2(k % LimbBits))[1]

\* The bits of the number n: 0 for 0, else floor(log2 n) + 1.
RECURSIVE BitsOf(_)
BitsOf(n) == IF n = 0 THEN 0 ELSE 1 + BitsOf(n \div 2)

\* The bits of x.
BitLen(x) == IF x = <<>> THEN 0 ELSE LimbBits * (Len(x) - 1) + BitsOf(x[Len(x)])

\* How often 2 divides the number n > 0.
RECURSIVE TwosOf(_)
TwosOf(n) == IF n % 2 = 1 THEN 0 ELSE 1 + TwosOf(n \div 2)

\* How often 2 divides x > 0.
RECURSIVE Twos(_)
Twos(x) == IF Head(x) = 0 THEN LimbBits + Twos(Tail(x)) ELSE TwosOf(Head(x))

IsOdd(x) == x # <<>> /\ Head(x) % 2 = 1

----------------------------------------------------------------------------
(* Machine integers. *)

U64Modulus == Shl(<<1>>, U64Bits)
U64Max == Sub(U64Modulus, <<1>>)
USizeMax == U64Max

\* a + b on u64 did not fit.
AddOverflows(a, b) == Lt(U64Max, Add(a, b))
\* a + b on u64 in a build without overflow checks.
WrappingAdd(a, b) ==
    IF AddOverflows(a, b) THEN Sub(Add(a, b), U64Modulus) ELSE Add(a, b)

----------------------------------------------------------------------------
(* Floats. *)

NaN == [kind |-> "nan", m |-> <<>>, e |-> 0]
Infinity == [kind |-> "inf", m |-> <<>>, e |-> 0]

\* The number m * 2^e with m made odd.
Dyadic(m, e) ==
    IF m = <<>> THEN [kind |-> "num", m |-> <<>>, e |-> 0]
    ELSE IF IsOdd(m) THEN [kind |-> "num", m |-> m, e |-> e]
    ELSE [kind |-> "num", m |-> Shr(m, Twos(m)), e |-> e + Twos(m)]

IsZero(x) == x.kind = "num" /\ x.m = <<>>

\* The f64 nearest to m * 2^e, ties to the even significand.
RoundToF64(m, e) ==
    IF BitLen(m) <= F64Bits THEN Dyadic(m, e)
    ELSE LET s == BitLen(m) - F64Bits
             q == Shr(m, s)
             rest == Sub(m, Shl(q, s))
             half == Cmp(rest, Shl(<<1>>, s - 1))
             up == half > 0 \/ (half = 0 /\ IsOdd(q))
         IN  Dyadic(IF up THEN Add(q, <<1>>) ELSE q, e + s)

\* `n as f64` of an unsigned integer.
AsF64(n) == RoundToF64(n, 0)

\* `x / 2.0`.
DivBy2(x) == IF x.kind = "num" /\ x.m # <<>> THEN [x EXCEPT !.e = @ - 1] ELSE x

\* `x / y`: the quotient to two bits more than an f64 holds and one more
\* that tells whether anything was left, then rounded.
F64Div(x, y) ==
    IF x.kind = "nan" \/ y.kind = "nan" THEN NaN
    ELSE IF x.kind = "inf" THEN (IF y.kind = "inf" THEN NaN ELSE Infinity)
    ELSE IF y.kind = "inf" THEN Dyadic(<<>>, 0)
    ELSE IF IsZero(y) THEN (IF IsZero(x) THEN NaN ELSE Infinity)
    ELSE IF IsZero(x) THEN x
    ELSE LET need == BitLen(y.m) + F64Bits + 2 - BitLen(x.m)
             s == IF need > 0 THEN need ELSE 0
             qr == DivMod(Shl(x.m, s), y.m)
             q == Add(Shl(qr[1], 1), IF qr[2] = <<>> THEN <<>> ELSE <<1>>)
         IN  RoundToF64(q, x.e - y.e - s - 1)

\* `x * y`.
F64Mul(x, y) ==
    IF x.kind = "nan" \/ y.kind = "nan" THEN NaN
    ELSE IF x.kind = "inf" \/ y.kind = "inf"
         THEN (IF IsZero(x) \/ IsZero(y) THEN NaN ELSE Infinity)
    ELSE RoundToF64(Mul(x.m, y.m), x.e + y.e)

\* f64::round: to the nearest integer, halves away from zero.
F64Round(x) ==
    IF x.kind # "num" \/ x.e >= 0 THEN x
    ELSE LET q == Shr(x.m, -x.e)
             rest == Sub(x.m, Shl(q, -x.e))
         IN  Dyadic(IF Le(Shl(<<1>>, -x.e - 1), rest) THEN Add(q, <<1>>) ELSE q, 0)

\* `x as usize` (and `as u64`): NaN is 0, the fraction is dropped, and what
\* does not fit is usize::MAX.
F64AsUsize(x) ==
    IF x.kind = "nan" THEN <<>>
    ELSE IF x.kind = "inf" THEN USizeMax
    ELSE LET n == IF x.e >= 0 THEN Shl(x.m, x.e) ELSE Shr(x.m, -x.e)
         IN  IF Lt(USizeMax, n) THEN USizeMax ELSE n

\* x <= y for two finite floats, or any two numbers m * 2^e.
NumLe(x, y) ==
    LET low == IF x.e < y.e THEN x.e ELSE y.e
    IN  Le(Shl(x.m, x.e - low), Shl(y.m, y.e - low))


----------------------------------------------------------------------------
(* Distribution::from_vec *)

\* s with x put before the first element greater than x.
RECURSIVE Insert(_, _)
Insert(s, x) ==
    IF s = <<>> THEN <<x>>
    ELSE IF Lt(x, Head(s)) THEN <<x>> \o s
    ELSE <<Head(s)>> \o Insert(Tail(s), x)

\* A sort that leaves the vector as it came.
SortLeftOut(s) == s

\* sizes.sort(): ascending.
RECURSIVE Sort(_)
Sort(s) == IF s = <<>> THEN <<>> ELSE Insert(Sort(Tail(s)), Head(s))

\* The 0-indexed element v[i].
At(v, i) == v[i + 1]

\* The additions of from_vec, in the order the struct literal evaluates them:
\* each is <<a, b>>, the two operands.
Additions(v) ==
    LET n == Len(v) IN
    (IF n % 2 = 0 THEN <<<<At(v, n \div 2 - 1), At(v, n \div 2)>>>> ELSE <<>>)
    \o (IF n % 4 = 0 THEN <<<<At(v, n \div 4 - 1), At(v, n \div 4)>>>> ELSE <<>>)
    \o (IF n % 4 = 0
        THEN <<<<At(v, (n * 3) \div 4 - 1), At(v, (n * 3) \div 4)>>>> ELSE <<>>)

\* Some addition of from_vec does not fit u64.
SumOverflows(v) == \E i \in 1..Len(Additions(v)) :
                       AddOverflows(Additions(v)[i][1], Additions(v)[i][2])

\* median: lines 41-46, v sorted and non-empty.
Median(v) ==
    IF Len(v) % 2 = 0
    THEN LET mid == Len(v) \div 2
         IN  DivBy2(AsF64(WrappingAdd(At(v, mid - 1), At(v, mid))))
    ELSE AsF64(At(v, Len(v) \div 2))

\* lower_quartile: lines 47-52.
LowerQuartile(v) ==
    IF Len(v) % 4 = 0
    THEN LET mid == Len(v) \div 4
         IN  DivBy2(AsF64(WrappingAdd(At(v, mid - 1), At(v, mid))))
    ELSE AsF64(At(v, Len(v) \div 4))

\* upper_quartile: lines 53-58.
UpperQuartile(v) ==
    IF Len(v) % 4 = 0
    THEN LET mid == (Len(v) * 3) \div 4
         IN  DivBy2(AsF64(WrappingAdd(At(v, mid - 1), At(v, mid))))
    ELSE AsF64(At(v, (Len(v) * 3) \div 4))

\* The struct literal of lines 38-59, v sorted and non-empty.
MakeDistribution(v) ==
    [min |-> At(v, 0),
     max |-> At(v, Len(v) - 1),
     median |-> Median(v),
     lower_quartile |-> LowerQuartile(v),
     upper_quartile |-> UpperQuartile(v)]

\* The panic from_vec dies with on the sorted vector v, "" when it returns.
FromVecPanic(v, checks) ==
    IF v = <<>> THEN "index out of bounds: the len is 0 but the index is 0"
    ELSE IF checks /\ SumOverflows(v) THEN "attempt to add with overflow"
    ELSE ""

----------------------------------------------------------------------------
(* process_dir *)

\* The walk's entries that survive filter_map(ok) and filter(is_file).
RECURSIVE Files(_)
Files(es) ==
    IF es = <<>> THEN <<>>
    ELSE IF Head(es).ok /\ Head(es).is_file THEN <<Head(es)>> \o Files(Tail(es))
    ELSE Files(Tail(es))

\* The filter with the threshold itself let through.
KeepSizeInclusive(size) == Le(Big(SizeThreshold), size)

\* .filter(|size| *size > 4096)
KeepSize(size) == Lt(Big(SizeThreshold), size)

\* .map(metadata.len()).filter(size > 4096).collect()
RECURSIVE CollectSizes(_)
CollectSizes(fs) ==
    IF fs = <<>> THEN <<>>
    ELSE IF KeepSize(Head(fs).len) THEN <<Head(fs).len>> \o CollectSizes(Tail(fs))
    ELSE CollectSizes(Tail(fs))

\* entry.metadata().unwrap() fails on some file of the walk.
MetadataFails(es) == \E i \in 1..Len(Files(es)) : ~Files(es)[i].metadata_ok

----------------------------------------------------------------------------
(* plot_box_diagram *)

\* `width as usize - 40` does not fit usize; width is a u16, held as a number.
CanvasUnderflows(w) == w < ReservedMargin

\* let cli_width = width as usize - 40, in a build without overflow checks.
CliWidth(w) ==
    IF CanvasUnderflows(w) THEN Sub(U64Modulus, Big(ReservedMargin - w))
    ELSE Big(w - ReservedMargin)

\* (v / max_value as f64 * cli_width as f64).round() as usize, v a float:
\* the quotient is rounded to an f64 before it is multiplied.  0.0 / 0.0 is
\* NaN and x / 0.0 is +infinity (x > 0); infinity * 0.0 is NaN.
Pos(v, maxv, cw) ==
    F64AsUsize(F64Round(F64Mul(F64Div(v, AsF64(maxv)), AsF64(cw))))

\* Lines 111-117: the five columns.
Positions(d, maxv, cw) ==
    [min |-> Pos(AsF64(d.min), maxv, cw),
     lower_quartile |-> Pos(d.lower_quartile, maxv, cw),
     median |-> Pos(d.median, maxv, cw),
     upper_quartile |-> Pos(d.upper_quartile, maxv, cw),
     max |-> Pos(AsF64(d.max), maxv, cw)]

\* How often `for _ in a..b` runs its body.
RangeLen(a, b) == IF Lt(a, b) THEN Sub(b, a) ELSE <<>>

\* Lines 122-140: the glyphs printed, as runs.
Bar(p, cw) ==
    << <<" ", RangeLen(<<>>, p.min)>>,
       <<"light_shade", RangeLen(p.min, p.lower_quartile)>>,
       <<"medium_shade", RangeLen(p.lower_quartile, p.median)>>,
       <<"dark_shade", <<1>>>>,
       <<"medium_shade", RangeLen(p.median, p.upper_quartile)>>,
       <<"light_shade", RangeLen(p.upper_quartile, p.max)>>,
       <<" ", RangeLen(p.max, cw)>> >>

----------------------------------------------------------------------------
(* Reading a printed bar. *)

\* The number of glyphs of the runs b.
RECURSIVE BarLength(_)
BarLength(b) == IF b = <<>> THEN <<>> ELSE Add(Head(b)[2], BarLength(Tail(b)))

\* The glyph in column col (from 0) of the runs b, "" past the end.
RECURSIVE GlyphAt(_, _)
GlyphAt(b, col) ==
    IF b = <<>> THEN ""
    ELSE IF Lt(col, Head(b)[2]) THEN Head(b)[1]
    ELSE GlyphAt(Tail(b), Sub(col, Head(b)[2]))

\* How many glyphs g the runs b hold.
RECURSIVE GlyphCount(_, _)
GlyphCount(b, g) ==
    IF b = <<>> THEN <<>>
    ELSE Add(IF Head(b)[1] = g THEN Head(b)[2] ELSE <<>>, GlyphCount(Tail(b), g))

----------------------------------------------------------------------------
(* The inputs the model draws from. *)

\* The sequences over S of length at most n.
SeqsUpTo(S, n) == UNION {[1..k -> S] : k \in 0..n}

\* Sizes handed to from_vec on its own: small ones, one that an f64 does not
\* hold (2^53 + 1), and the two whose sums leave u64 (2^63 and u64::MAX).
SizeValues == {Big(0), Big(3), Add(Shl(<<1>>, F64Bits), <<1>>),
               Shl(<<1>>, U64Bits - 1), U64Max}

\* std::env::args(): the program's name alone, or with a path.
ArgLists == {<<"dudist">>, <<"dudist", "dir">>}

\* What a directory walk yields: a failed entry, a directory, a file whose
\* metadata cannot be read, and files at and above the threshold.
WalkEntry(ok, is_file, metadata_ok, len) ==
    [ok |-> ok, is_file |-> is_file, metadata_ok |-> metadata_ok, len |-> Big(len)]
EntryKinds ==
    {WalkEntry(FALSE, FALSE, FALSE, 0),
     WalkEntry(TRUE, FALSE, TRUE, 8000),
     WalkEntry(TRUE, TRUE, FALSE, 0),
     WalkEntry(TRUE, TRUE, TRUE, SizeThreshold),
     WalkEntry(TRUE, TRUE, TRUE, 7000),
     WalkEntry(TRUE, TRUE, TRUE, 8000),
     WalkEntry(TRUE, TRUE, TRUE, 10000)}

\* get_terminal_width(): None, or Some(ws_col).
TermWidths == {<<>>, <<0>>, <<ReservedMargin>>, <<85>>}

\* Distributions, scaling values and widths handed to plot_box_diagram on
\* its own.
PlotU64 == {Big(0), Big(25), Big(100)}
PlotF64 == {AsF64(Big(0)), DivBy2(AsF64(Big(25))), AsF64(Big(25)),
            AsF64(Big(50)), AsF64(Big(70)), AsF64(Big(75))}
PlotMaxValues == {Big(0), Big(100)}
PlotWidths == {0, ReservedMargin - 1, ReservedMargin, ReservedMargin + 1,
               ReservedMargin + 10,
               ReservedMargin + 45, ReservedMargin + 100}

NoPositions == [min |-> <<>>, lower_quartile |-> <<>>, median |-> <<>>,
                upper_quartile |-> <<>>, max |-> <<>>]

----------------------------------------------------------------------------
(* The program. *)

\* A panic: the run dies with the message.
Panics(msg) == pc' = "panicked" /\ panic' = msg

\* Where a function of the run returns to.
ReturnTo(next) == IF entry = "main" THEN next ELSE "returned"

\* main, lines 148-149: args.get(1).expect("Please provide a path").
MainArgs ==
    /\ pc = "main"
    /\ IF Len(args) < 2
       THEN Panics("Please provide a path")
       ELSE pc' = "process_dir" /\ UNCHANGED panic
    /\ UNCHANGED <<entry, overflow_checks, args, entries, term_width, input,
                   sizes, dist, max_value, width, cli_width, pos, bar, stdout,
                   calls>>

\* main, line 150: let sizes = process_dir(&path).
ProcessDir ==
    /\ pc = "process_dir"
    /\ calls' = Append(calls, <<"process_dir", <<>>>>)
    /\ IF MetadataFails(entries)
       THEN /\ Panics("called Result::unwrap() on an Err value")
            /\ UNCHANGED sizes
       ELSE /\ sizes' = CollectSizes(Files(entries))
            /\ pc' = "check_empty"
            /\ UNCHANGED panic
    /\ UNCHANGED <<entry, overflow_checks, args, entries, term_width, input,
                   dist, max_value, width, cli_width, pos, bar, stdout>>

\* main, lines 151-154: no size was collected.
MainNoFiles ==
    /\ pc = "check_empty"
    /\ sizes = <<>>
    /\ stdout' = Append(stdout, <<"No files found in the directory">>)
    /\ pc' = "exit"
    /\ UNCHANGED <<entry, overflow_checks, args, entries, term_width, input,
                   sizes, dist, max_value, width, cli_width, pos, bar, calls,
                   panic>>

\* main, lines 155-156: print the count and call from_vec(sizes).
MainCallFromVec ==
    /\ pc = "check_empty"
    /\ sizes # <<>>
    /\ stdout' = Append(stdout, <<"Number of files:", Len(sizes)>>)
    /\ calls' = Append(calls, <<"from_vec", sizes>>)
    /\ input' = sizes
    /\ pc' = "from_vec_sort"
    /\ UNCHANGED <<entry, overflow_checks, args, entries, term_width, sizes,
                   dist, max_value, width, cli_width, pos, bar, panic>>

\* from_vec, lines 36-37: sizes.sort().
FromVecSort ==
    /\ pc = "from_vec_sort"
    /\ sizes' = Sort(sizes)
    /\ pc' = "from_vec_build"
    /\ UNCHANGED <<entry, overflow_checks, args, entries, term_width, input,
                   dist, max_value, width, cli_width, pos, bar, stdout, calls,
                   panic>>

\* from_vec, lines 38-59: build the Distribution, or panic on sizes[0] or on
\* an addition.
FromVecBuild ==
    /\ pc = "from_vec_build"
    /\ IF FromVecPanic(sizes, overflow_checks) # ""
       THEN /\ Panics(FromVecPanic(sizes, overflow_checks))
            /\ UNCHANGED dist
       ELSE /\ dist' = MakeDistribution(sizes)
            /\ pc' = ReturnTo("print_distribution")
            /\ UNCHANGED panic
    /\ UNCHANGED <<entry, overflow_checks, args, entries, term_width, input,
                   sizes, max_value, width, cli_width, pos, bar, stdout, calls>>

\* print_distribution, lines 76-103: five lines, each with the byte count
\* handed to the formatter (the byte_unit crate, which is not part of this
\* repository: the model keeps its argument); then main calls
\* plot_box_diagram(&dist, dist.max, get_terminal_width().unwrap_or(80)).
PrintDistribution ==
    /\ pc = "print_distribution"
    /\ calls' = calls \o << <<"print_distribution", sizes>>,
                            <<"plot_box_diagram", sizes>> >>
    /\ stdout' = stdout \o
           << <<"Smallest:", dist.min>>,
              <<"Lower Quartile:", F64Round(dist.lower_quartile)>>,
              <<"Median:", F64Round(dist.median)>>,
              <<"Upper Quartile:", F64Round(dist.upper_quartile)>>,
              <<"Largest:", dist.max>> >>
    /\ max_value' = dist.max
    /\ width' = IF term_width = <<>> THEN DefaultWidth ELSE term_width[1]
    /\ pc' = "plot_canvas"
    /\ UNCHANGED <<entry, overflow_checks, args, entries, term_width, input,
                   sizes, dist, cli_width, pos, bar, panic>>

\* plot_box_diagram, line 109: let cli_width = width as usize - 40.
PlotCanvas ==
    /\ pc = "plot_canvas"
    /\ IF overflow_checks /\ CanvasUnderflows(width)
       THEN /\ Panics("attempt to subtract with overflow")
            /\ UNCHANGED cli_width
       ELSE /\ cli_width' = CliWidth(width)
            /\ pc' = "plot_positions"
            /\ UNCHANGED panic
    /\ UNCHANGED <<entry, overflow_checks, args, entries, term_width, input,
                   sizes, dist, max_value, width, pos, bar, stdout, calls>>

\* plot_box_diagram, lines 111-117: the five columns.
PlotPositions ==
    /\ pc = "plot_positions"
    /\ pos' = Positions(dist, max_value, cli_width)
    /\ pc' = "plot_draw"
    /\ UNCHANGED <<entry, overflow_checks, args, entries, term_width, input,
                   sizes, dist, max_value, width, cli_width, bar, stdout, calls,
                   panic>>

\* plot_box_diagram, lines 118-144: the label, the glyphs, the label.
PlotDraw ==
    /\ pc = "plot_draw"
    /\ bar' = Bar(pos, cli_width)
    /\ stdout' = Append(stdout, <<"Smallest:", dist.min, "Largest:", dist.max>>)
    /\ pc' = ReturnTo("exit")
    /\ UNCHANGED <<entry, overflow_checks, args, entries, term_width, input,
                   sizes, dist, max_value, width, cli_width, pos, calls, panic>>

----------------------------------------------------------------------------
(* The tool: main, from its arguments on. *)

Init ==
    /\ pc = "main"
    /\ entry = "main"
    /\ overflow_checks \in BOOLEAN
    /\ args \in ArgLists
    /\ entries \in SeqsUpTo(EntryKinds, MaxEntries)
    /\ term_width \in TermWidths
    /\ input = <<>>
    /\ sizes = <<>>
    /\ dist = <<>>
    /\ max_value = <<>>
    /\ width = 0
    /\ cli_width = <<>>
    /\ pos = NoPositions
    /\ bar = <<>>
    /\ stdout = <<>>
    /\ calls = <<>>
    /\ panic = ""

Next ==
    \/ MainArgs
    \/ ProcessDir
    \/ MainNoFiles
    \/ MainCallFromVec
    \/ FromVecSort
    \/ FromVecBuild
    \/ PrintDistribution
    \/ PlotCanvas
    \/ PlotPositions
    \/ PlotDraw

Spec == Init /\ [][Next]_vars

(* Distribution::from_vec on any vector of u64. *)

InitCalc ==
    /\ pc = "from_vec_sort"
    /\ entry = "from_vec"
    /\ overflow_checks \in BOOLEAN
    /\ args = <<>>
    /\ entries = <<>>
    /\ term_width = <<>>
    /\ input \in SeqsUpTo(SizeValues, MaxLen)
    /\ sizes = input
    /\ dist = <<>>
    /\ max_value = <<>>
    /\ width = 0
    /\ cli_width = <<>>
    /\ pos = NoPositions
    /\ bar = <<>>
    /\ stdout = <<>>
    /\ calls = <<>>
    /\ panic = ""

NextCalc == FromVecSort \/ FromVecBuild

SpecCalc == InitCalc /\ [][NextCalc]_vars

(* plot_box_diagram on any Distribution, scaling value and width. *)

InitPlot ==
    /\ pc = "plot_canvas"
    /\ entry = "plot_box_diagram"
    /\ overflow_checks \in BOOLEAN
    /\ args = <<>>
    /\ entries = <<>>
    /\ term_width = <<>>
    /\ input = <<>>
    /\ sizes = <<>>
    /\ dist \in [min : PlotU64, max : PlotU64, median : PlotF64,
                 lower_quartile : PlotF64, upper_quartile : PlotF64]
    /\ max_value \in PlotMaxValues
    /\ width \in PlotWidths
    /\ cli_width = <<>>
    /\ pos = NoPositions
    /\ bar = <<>>
    /\ stdout = <<>>
    /\ calls = <<>>
    /\ panic = ""

NextPlot == PlotCanvas \/ PlotPositions \/ PlotDraw

SpecPlot == InitPlot /\ [][NextPlot]_vars

----------------------------------------------------------------------------
(* What the claims speak of. *)

\* from_vec has come back with a Distribution.
Returned == entry = "from_vec" /\ pc = "returned"
\* The run of from_vec is over, one way or the other.
CalcOver == entry = "from_vec" /\ pc \in {"returned", "panicked"}

\* t holds the elements of s, each as often.
SameElements(s, t) ==
    /\ Len(s) = Len(t)
    /\ \A x \in {s[i] : i \in 1..Len(s)} \cup {t[i] : i \in 1..Len(t)} :
           Cardinality({i \in 1..Len(s) : s[i] = x})
               = Cardinality({i \in 1..Len(t) : t[i] = x})
\* s is ascending.
Ascending(s) == \A i \in 1..(Len(s) - 1) : Le(s[i], s[i + 1])

\* The smallest and the largest element of a non-empty s.
TrueMin(s) ==
    CHOOSE x \in {s[i] : i \in 1..Len(s)} : \A j \in 1..Len(s) : Le(x, s[j])
TrueMax(s) ==
    CHOOSE x \in {s[i] : i \in 1..Len(s)} : \A j \in 1..Len(s) : Le(s[j], x)

\* s with the elements at i and j exchanged.
Swapped(s, i, j) ==
    [k \in 1..Len(s) |-> IF k = i THEN s[j] ELSE IF k = j THEN s[i] ELSE s[k]]

\* The integer n as a number m * 2^e, whatever its size.
Exact(n) == Dyadic(n, 0)
\* The average of the integers a and b as a number, without any rounding.
TrueAverage(a, b) == Dyadic(Add(a, b), -1)

\* The statistic of the rule with multiplier m and divisor d over the
\* ascending v, as a number: idx = n*m/d; the average of v[idx-1] and v[idx]
\* when d divides n*m, and v[idx] otherwise.
RuleStatistic(v, m, d) ==
    LET idx == (Len(v) * m) \div d
    IN  IF (Len(v) * m) % d = 0
        THEN TrueAverage(At(v, idx - 1), At(v, idx))
        ELSE Exact(At(v, idx))

\* min <= lower_quartile <= median <= upper_quartile <= max, as numbers.
Ordered(d) ==
    /\ NumLe(Exact(d.min), d.lower_quartile)
    /\ NumLe(d.lower_quartile, d.median)
    /\ NumLe(d.median, d.upper_quartile)
    /\ NumLe(d.upper_quartile, Exact(d.max))

(* C1: for every non-empty input, the Distribution from_vec returns has    *)
(* min <= lower_quartile <= median <= upper_quartile <= max.               *)
C1_Ordered == Returned => Ordered(dist)

(* C2: for every non-empty input, median, lower_quartile and               *)
(* upper_quartile are the statistics of the rule with (m, d) = (1, 2),     *)
(* (1, 4) and (3, 4) over the input sorted ascending.                      *)
C2_IndexRule ==
    Returned =>
        /\ SameElements(sizes, input) /\ Ascending(sizes)
        /\ dist.median = RuleStatistic(sizes, 1, 2)
        /\ dist.lower_quartile = RuleStatistic(sizes, 1, 4)
        /\ dist.upper_quartile = RuleStatistic(sizes, 3, 4)

(* C3: the returned min is the smallest and max the largest element of     *)
(* the input, and neither changes when the input is permuted (exchanging   *)
(* two neighbours, which generates every permutation, gives an input whose *)
(* Distribution has the same min and max).                                 *)
C3_MinMax ==
    Returned =>
        /\ dist.min = TrueMin(input)
        /\ dist.max = TrueMax(input)
        /\ \A i \in 1..(Len(input) - 1) :
               \A other \in {MakeDistribution(Sort(Swapped(input, i, i + 1)))} :
                   other.min = dist.min /\ other.max = dist.max

\* from_vec has returned on an input whose first element is not its
\* smallest and whose last is not its largest.
C3_Witness ==
    /\ Returned
    /\ Len(input) >= 3
    /\ Lt(dist.min, input[1])
    /\ Lt(input[Len(input)], dist.max)

(* C4: from_vec on the empty sequence gives the caller an explicit         *)
(* EmptyInput outcome: the call returns, it does not crash.                *)
C4_EmptyInputReturned == (CalcOver /\ input = <<>>) => pc = "returned"

(* C10: from_vec is total over non-empty vectors of u64: it returns, and a *)
(* statistic of an averaging branch is the true average of its two         *)
(* elements, also when their sum exceeds u64.                              *)
C10_TotalTrueAverage ==
    (CalcOver /\ input # <<>>) =>
        /\ pc = "returned"
        /\ (Len(sizes) % 2 = 0 =>
               dist.median = TrueAverage(At(sizes, Len(sizes) \div 2 - 1),
                                         At(sizes, Len(sizes) \div 2)))
        /\ (Len(sizes) % 4 = 0 =>
               /\ dist.lower_quartile
                      = TrueAverage(At(sizes, Len(sizes) \div 4 - 1),
                                    At(sizes, Len(sizes) \div 4))
               /\ dist.upper_quartile
                      = TrueAverage(At(sizes, (Len(sizes) * 3) \div 4 - 1),
                                    At(sizes, (Len(sizes) * 3) \div 4)))

----------------------------------------------------------------------------
(* main *)

\* No entry of the walk is a file larger than 4096 bytes.
NoLargeFile ==
    ~\E i \in 1..Len(entries) :
        entries[i].ok /\ entries[i].is_file /\ Lt(Big(4096), entries[i].len)

\* The functions main has called so far.
Called == {calls[i][1] : i \in 1..Len(calls)}

(* C5: when the walk yields no size, main reports that no files were found *)
(* and ends without calling from_vec, print_distribution or                *)
(* plot_box_diagram; and from_vec is only ever called on a non-empty       *)
(* vector whose every element is > 4096.                                   *)
C5_NoFilesNoCalculator ==
    /\ (entry = "main" /\ NoLargeFile /\ panic = "") =>
           /\ pc \in {"main", "process_dir", "check_empty", "exit"}
           /\ Called \subseteq {"process_dir"}
           /\ dist = <<>> /\ bar = <<>>
           /\ (pc = "exit" => stdout = << <<"No files found in the directory">> >>)
    /\ \A i \in 1..Len(calls) :
           calls[i][1] = "from_vec" =>
               /\ calls[i][2] # <<>>
               /\ \A k \in 1..Len(calls[i][2]) : Lt(Big(4096), calls[i][2][k])
    /\ (entry = "main" /\ pc \in {"from_vec_sort", "from_vec_build"}) =>
           /\ sizes # <<>>
           /\ \A k \in 1..Len(sizes) : Lt(Big(4096), sizes[k])

\* main has ended on a walk whose only file is exactly 4096 bytes long.
C5_Witness ==
    /\ entry = "main" /\ pc = "exit"
    /\ \E i \in 1..Len(entries) :
           entries[i].ok /\ entries[i].is_file /\ entries[i].len = Big(4096)
    /\ stdout = << <<"No files found in the directory">> >>
    /\ Called = {"process_dir"}

----------------------------------------------------------------------------
(* plot_box_diagram *)

\* plot_box_diagram has computed its canvas (line 109 is behind it).
CanvasComputed ==
    entry = "plot_box_diagram" /\ pc \in {"plot_positions", "plot_draw", "returned"}
\* plot_box_diagram has computed its five columns.
PositionsComputed ==
    entry = "plot_box_diagram" /\ pc \in {"plot_draw", "returned"}
\* plot_box_diagram has printed its line.
Plotted == entry = "plot_box_diagram" /\ pc = "returned"

(* C6: for every terminal width the canvas width is at least 1 and the     *)
(* renderer does not fault: width - 40 does not underflow.                 *)
C6_CanvasAtLeastOne ==
    (entry = "plot_box_diagram" /\ pc # "plot_canvas") =>
        /\ panic = ""
        /\ Le(<<1>>, cli_width)
        /\ Le(cli_width, Big(width))

\* The Distribution of sizes that are all zero.
AllZero == [min |-> <<>>, max |-> <<>>, median |-> AsF64(<<>>),
            lower_quartile |-> AsF64(<<>>), upper_quartile |-> AsF64(<<>>)]

(* C7: a call of plot_box_diagram with max_value = 0 (all sizes zero) does  *)
(* not panic, whatever the width; all five columns are 0, and the line is  *)
(* the dark glyph in column 0 followed by blanks.                          *)
C7_ZeroMaxValue ==
    (entry = "plot_box_diagram" /\ max_value = <<>> /\ dist = AllZero) =>
        /\ panic = ""
        /\ pc # "panicked"
        /\ (PositionsComputed => pos = NoPositions)
        /\ (Plotted =>
               /\ GlyphAt(bar, <<>>) = "dark_shade"
               /\ GlyphCount(bar, "dark_shade") = <<1>>
               /\ GlyphCount(bar, " ") = cli_width
               /\ BarLength(bar) = Add(cli_width, <<1>>))

\* The Distribution of C8.
C8Distribution ==
    [min |-> Big(0), max |-> Big(100), lower_quartile |-> AsF64(Big(25)),
     median |-> AsF64(Big(50)), upper_quartile |-> AsF64(Big(75))]

(* C8: Distribution{0, 25, 50, 75, 100} with max_value = 100 on a canvas   *)
(* of 100 columns: the columns are (0, 25, 50, 75, 100) and the bar is     *)
(* light in columns 0-24, medium in 25-49, dark in 50, medium in 51-74 and *)
(* light in 75-99: exactly the 100 columns of the canvas.                  *)
C8_ExampleBar ==
    (Plotted /\ dist = C8Distribution /\ max_value = Big(100)
             /\ cli_width = Big(100)) =>
        /\ pos = [min |-> Big(0), lower_quartile |-> Big(25), median |-> Big(50),
                  upper_quartile |-> Big(75), max |-> Big(100)]
        /\ \A c \in 0..24 : GlyphAt(bar, Big(c)) = "light_shade"
        /\ \A c \in 25..49 : GlyphAt(bar, Big(c)) = "medium_shade"
        /\ GlyphAt(bar, Big(50)) = "dark_shade"
        /\ \A c \in 51..74 : GlyphAt(bar, Big(c)) = "medium_shade"
        /\ \A c \in 75..99 : GlyphAt(bar, Big(c)) = "light_shade"
        /\ BarLength(bar) = Big(100)

\* What C9 asks of the arguments: an ordered Distribution below a positive
\* max_value, on a canvas of at least one column.
C9Arguments ==
    /\ Ordered(dist)
    /\ Le(dist.max, max_value)
    /\ Lt(<<>>, max_value)
    /\ Le(<<1>>, cli_width)

(* C9: for such arguments the columns satisfy 0 <= pos(min) <=             *)
(* pos(lower_quartile) <= pos(median) <= pos(upper_quartile) <= pos(max)   *)
(* <= canvas width, so each of the six ranges prints the difference of its *)
(* two columns (none when they are equal), and the dark glyph is printed   *)
(* exactly once.                                                           *)
C9_ColumnsOrdered ==
    (PositionsComputed /\ C9Arguments) =>
        /\ Le(pos.min, pos.lower_quartile)
        /\ Le(pos.lower_quartile, pos.median)
        /\ Le(pos.median, pos.upper_quartile)
        /\ Le(pos.upper_quartile, pos.max)
        /\ Le(pos.max, cli_width)
        /\ (Plotted =>
               /\ bar[1] = <<" ", pos.min>>
               /\ bar[2] = <<"light_shade", Sub(pos.lower_quartile, pos.min)>>
               /\ bar[3] = <<"medium_shade", Sub(pos.median, pos.lower_quartile)>>
               /\ bar[4] = <<"dark_shade", <<1>>>>
               /\ bar[5] = <<"medium_shade", Sub(pos.upper_quartile, pos.median)>>
               /\ bar[6] = <<"light_shade", Sub(pos.max, pos.upper_quartile)>>
               /\ bar[7] = <<" ", Sub(cli_width, pos.max)>>
               /\ GlyphCount(bar, "dark_shade") = <<1>>)

====
